---- MODULE Spec2Model ----
(***************************************************************************)
(* A model of the WikiAPI crawler (WikiCrawler.py and its collaborators).  *)
(*                                                                         *)
(* Links are integers: 0 is the synthetic root '' of category_tree, a      *)
(* positive number is a category link, a negative number an article link.  *)
(* Names are sequences of tokens, "Category:" being the token the code     *)
(* strips with str.replace; a skip rule is a literal pattern, a sequence   *)
(* of tokens that re.match anchors at the start of the name.               *)
(***************************************************************************)
EXTENDS Integers, Sequences, FiniteSets, TLC

VARIABLES
    web,                 \* the wiki: what the fetcher answers for each category
    category_tree,       \* link -> list of parent links (a defaultdict(list))
    category_list,       \* category link -> name
    article_list,        \* article links in insertion order (keys of the dict)
    open_categories,     \* category links in insertion order (keys of the dict)
    skip_categories,     \* explicit category names to skip
    skip_category_rules, \* list of patterns for categories to skip
    skip_articles,       \* explicit article names to skip
    skip_article_rules,  \* list of patterns for articles to skip
    skip_article_categories,      \* head categories that exclude an article
    skip_article_category_rules,  \* patterns of head categories that do
    skipped_articles,    \* article name -> reason it was skipped
    configured,          \* the addSkip... methods called so far
    last,                \* the last validity check: its argument and result
    rc_pc,               \* retrieveCategories: "idle", "loop" or "done"
    rc_link,             \* retrieveCategories: article_link
    rc_generation,       \* retrieveCategories: ancestor_generation
    rc_ancestors,        \* retrieveCategories: ancestors
    rc_result,           \* retrieveCategories: ancestor link -> returned name
    archive_path,        \* "None" or the archive directory
    fs_index_exists,     \* whether <archive_path>/index.txt exists
    fs_index,            \* the lines of index.txt, each <<digest, link>>
    fs_meta,             \* digest -> content of <digest>.meta
    fs_txt,              \* digest -> content of <digest>.txt
    dir_fresh,           \* the archive directory was created by setArchivePath
    article_texts,       \* article link -> text, or True when archived
    article_links,       \* article link -> outbound links
    article_categories,  \* article link -> head categories
    article_hieracy_categories,   \* article link -> inherited categories
    save_path,           \* "None" until save() sets the attribute
    ckpt_exists,         \* whether the checkpoint file exists
    ckpt_written,        \* the pickles the checkpoint file holds
    ckpt_state,          \* the attribute values those pickles were taken from
    proc,                \* "running", "crashed", or "failed" after a load
                         \* that raised
    cl_interval,         \* collectArticles: save_intervall
    cl_pc,               \* collectArticles: "idle", "loop" or "done"
    cl_pending,          \* collectArticles: articles_to_collect not yet visited
    cl_i,                \* collectArticles: the loop index i
    cl_limit,            \* collectArticles: limit
    cl_flags,            \* collectArticles: links, text, categories
    cl_failing,          \* the articles whose fetch fails during this call
    cl_done,             \* article link -> what this call did with it
    cl_runs,             \* calls of collectArticles so far
    cl_complete,         \* the call that, with an archive, visited all it had
                         \* pending; 0 when there was none
    rq_kind,             \* the page requested last: "category" or "article"
    rq_pc,               \* "idle", "request", "done" or "raised"
    rq_pages,            \* the pages of the listing of the category
    rq_retry,            \* _make_request: the loop variable retry
    rq_log,              \* for each page requested, the outcomes of the
                         \* attempts made for it
    sr_pc,               \* WikiSearch: "none", "ready" once constructed, "iter"
                         \* while search_results runs, "done" or "raised"
    n_matches,           \* WikiSearch: the total number of matches
    offset,              \* WikiSearch: the offset of the page loaded last
    results,             \* WikiSearch: the articles loaded so far
    sr_at,               \* search_results: the loop variable at
    sr_limit,            \* search_results: limit
    sr_chunk,            \* search_results: chunk_size
    sr_yielded,          \* search_results: the articles yielded so far
    fd_log,              \* what each level of the last followDeeper did
    expanded_cats,       \* the categories addCategory has run for
    raised,              \* the exception the last call ended with, or "none"
    phase,               \* what has been called so far on this crawler
    seed,                \* the category given to the last startFrom
    work                 \* category levels expanded so far (bounds the run)

crawlVars == <<category_tree, category_list, article_list, open_categories>>
ruleVars == <<skip_categories, skip_category_rules>>
articleRuleVars ==
    <<skip_articles, skip_article_rules, skip_article_categories,
      skip_article_category_rules>>
checkVars == <<configured, last>>
resolveVars == <<rc_pc, rc_link, rc_generation, rc_ancestors, rc_result>>
archiveVars == <<archive_path, fs_index_exists, fs_index, fs_meta, fs_txt,
                 dir_fresh>>
memoryVars == <<article_texts, article_links, article_categories,
                article_hieracy_categories>>
collectVars == <<cl_pc, cl_pending, cl_i, cl_limit, cl_interval, cl_flags,
                 cl_failing, cl_done, cl_runs, cl_complete>>
saveVars == <<save_path, ckpt_exists, ckpt_written, ckpt_state, proc>>
requestVars == <<rq_kind, rq_pc, rq_pages, rq_retry, rq_log>>
searchVars == <<sr_pc, n_matches, offset, results, sr_at, sr_limit, sr_chunk,
                sr_yielded>>
histVars == <<raised, phase, seed, work, fd_log, expanded_cats>>
vars == <<web, crawlVars, ruleVars, articleRuleVars, skipped_articles,
          checkVars, resolveVars, archiveVars, memoryVars, collectVars,
          saveVars, requestVars, searchVars, histVars>>

\* what the crawl, the skip policy's methods, retrieveCategories and
\* collectArticles leave alone
crawlFrame ==
    <<web, ruleVars, articleRuleVars, skipped_articles, checkVars,
      resolveVars, archiveVars, memoryVars, collectVars, saveVars,
      requestVars, searchVars>>
policyFrame ==
    <<web, crawlVars, resolveVars, archiveVars, memoryVars, collectVars,
      saveVars, requestVars, searchVars, histVars>>
resolveFrame ==
    <<web, crawlVars, ruleVars, articleRuleVars, skipped_articles, checkVars,
      archiveVars, memoryVars, collectVars, saveVars, requestVars,
      searchVars>>
collectFrame ==
    <<web, crawlVars, ruleVars, articleRuleVars, checkVars, resolveVars,
      requestVars, searchVars, phase, seed, work, fd_log, expanded_cats>>
requestFrame ==
    <<web, crawlVars, ruleVars, articleRuleVars, skipped_articles, checkVars,
      resolveVars, archiveVars, memoryVars, collectVars, saveVars, searchVars,
      histVars>>
searchFrame ==
    <<web, crawlVars, ruleVars, articleRuleVars, skipped_articles, checkVars,
      resolveVars, archiveVars, memoryVars, collectVars, saveVars,
      requestVars, phase, seed, work, fd_log, expanded_cats>>

----------------------------------------------------------------------------
(* Bounds of the model *)

MaxLevels == 2
MaxWork == 3
MaxRules == 2
FanWidth == 101

\* the cap of retrieveCategories on the number of collected ancestors
VisitedCap == 100

----------------------------------------------------------------------------
(* Links, names and the wiki *)

Root == 0

Range(s) == {s[i] : i \in DOMAIN s}

Min(S) == CHOOSE x \in S : \A y \in S : x <= y

RECURSIVE SortedSeq(_)
SortedSeq(S) == IF S = {} THEN <<>> ELSE <<Min(S)>> \o SortedSeq(S \ {Min(S)})

\* title attribute of a subcategory link on a category page
CatTitle(c) == <<"Category:", ToString(c)>>

\* title attribute of a page link on a category page; the link -11 is a
\* second link that is listed with the title of the page behind -1
ArtTitle(a) == <<"Article", ToString(0 - (IF a = 0 - 11 THEN 0 - 1 ELSE a))>>

\* str.replace('Category:', ''): every occurrence of the token is removed
StripCategory(name) == SelectSeq(name, LAMBDA tok : tok # "Category:")

\* re.match(rule, name) for a literal pattern: the name starts with it
ReMatch(rule, name) ==
    /\ Len(rule) <= Len(name)
    /\ SubSeq(name, 1, Len(rule)) = rule

SmallCats == {1, 2}
SmallArts == {-1}

\* A wiki over the small link sets: each category page lists any set of
\* subcategories and any set of pages, in the order of their links.
SmallWebs ==
    { [cats |-> SmallCats, arts |-> SmallArts,
       sub |-> [c \in SmallCats |-> SortedSeq(s[c])],
       pages |-> [c \in SmallCats |-> SortedSeq(p[c])]] :
         s \in [SmallCats -> SUBSET SmallCats],
         p \in [SmallCats -> SUBSET SmallArts] }

\* The scenario of the specification: a seed category with two subcategories
\* and five pages.
ScenarioWeb ==
    [cats |-> {1, 2, 3}, arts |-> {-1, -2, -3, -4, -5},
     sub |-> [c \in {1, 2, 3} |-> IF c = 1 THEN <<2, 3>> ELSE <<>>],
     pages |-> [c \in {1, 2, 3} |->
                   IF c = 1 THEN <<-5, -4, -3, -2, -1>> ELSE <<>>]]

Nodes == web.cats \cup web.arts \cup {Root}

----------------------------------------------------------------------------
(* Category skip rules *)

\* categoryIsValid without the test of the explicit set
CategoryIsValidRulesOnly(name) ==
    ~ \E i \in DOMAIN skip_category_rules :
          ReMatch(skip_category_rules[i], name)

CategoryIsValid(name) ==
    IF name \in skip_categories THEN FALSE
    ELSE IF \E i \in DOMAIN skip_category_rules :
                ReMatch(skip_category_rules[i], name) THEN FALSE
    ELSE TRUE

----------------------------------------------------------------------------
(* Article skip rules *)

\* index of the first rule of the list that matches name, 0 when none does
FirstMatch(rules, name) ==
    IF \E i \in DOMAIN rules : ReMatch(rules[i], name)
      THEN Min({i \in DOMAIN rules : ReMatch(rules[i], name)})
      ELSE 0

\* d[key] = value on a dict
DictSet(d, key, value) ==
    [k \in DOMAIN d \cup {key} |-> IF k = key THEN value ELSE d[k]]

\* a check of the name that lets every article pass
ArticleNameNeverChecked(name) ==
    [ret |-> "True", raised |-> "none", skipped |-> skipped_articles]

\* articleIsValid(name): both rejecting branches evaluate
\* self.skipped_articles.append[name], and a dict has no attribute append
ArticleIsValid(name) ==
    IF name \in skip_articles
      THEN [ret |-> "none", raised |-> "AttributeError",
            skipped |-> skipped_articles]
    ELSE IF FirstMatch(skip_article_rules, name) # 0
      THEN [ret |-> "none", raised |-> "AttributeError",
            skipped |-> skipped_articles]
    ELSE [ret |-> "True", raised |-> "none", skipped |-> skipped_articles]

\* the loop body without the inner loop over the category rules
HeadCategoryVerdictExplicitOnly(category) ==
    IF category \in skip_article_categories
      THEN <<"Category", category>>
    ELSE <<"pass">>

\* the body of the loop of articleCategoriesAreValid for one head category:
\* "pass" when neither the explicit list nor a rule rejects it
HeadCategoryVerdict(category) ==
    IF category \in skip_article_categories
      THEN <<"Category", category>>
    ELSE IF FirstMatch(skip_article_category_rules, category) # 0
      THEN <<"Rule", skip_article_category_rules[
                        FirstMatch(skip_article_category_rules, category)]>>
    ELSE <<"pass">>

\* a check of the head categories that lets every article pass
ArticleCategoriesNeverChecked(name, heads) ==
    [ret |-> "True", raised |-> "none", skipped |-> skipped_articles]

\* articleCategoriesAreValid(name, article_categories), the head categories
\* given as the list of the dict's values
RECURSIVE ArticleCategoriesAreValid(_, _)
ArticleCategoriesAreValid(name, heads) ==
    IF heads = <<>>
      THEN [ret |-> "True", raised |-> "none", skipped |-> skipped_articles]
    ELSE IF HeadCategoryVerdict(Head(heads)) # <<"pass">>
      THEN [ret |-> "False", raised |-> "none",
            skipped |-> DictSet(skipped_articles, name,
                                HeadCategoryVerdict(Head(heads)))]
    ELSE ArticleCategoriesAreValid(name, Tail(heads))

----------------------------------------------------------------------------
(* The category graph and the frontier *)

CrawlState ==
    [tree |-> category_tree, clist |-> category_list,
     alist |-> article_list, open |-> open_categories]

\* dict.update(d) on the keys of an insertion-ordered dict
DictUpdate(keys, new) ==
    keys \o SelectSeq(new, LAMBDA k : k \notin Range(keys))

\* an addCategory that records no parent for what the page lists
AppendParentNever(tree, links, link) == tree

\* self.category_tree[new_link].append(link) for every new_link of links
AppendParent(tree, links, link) ==
    [n \in DOMAIN tree |->
        IF n \in Range(links) THEN Append(tree[n], link) ELSE tree[n]]

AddCategory(cs, link, root) ==
    LET subs == web.sub[link]
        pgs == web.pages[link]
        t1 == [cs.tree EXCEPT ![link] = root]
        t2 == AppendParent(t1, subs, link)
        t3 == AppendParent(t2, pgs, link)
    IN [tree |-> t3,
        clist |-> [l \in DOMAIN cs.clist \cup Range(subs) |->
                      IF l \in Range(subs) THEN CatTitle(l) ELSE cs.clist[l]],
        alist |-> DictUpdate(cs.alist, pgs),
        open |-> DictUpdate(cs.open, subs)]

\* startFrom(category): failing is the set of links whose fetch fails
StartFromResult(cs, c, name, failing) ==
    IF c \in failing THEN [cs |-> cs, raised |-> "FetchError"]
    ELSE LET added == AddCategory(cs, c, <<Root>>)
         IN [cs |-> [added EXCEPT !.clist =
                        [l \in DOMAIN added.clist \cup {c} |->
                            IF l = c THEN name ELSE added.clist[l]]],
             raised |-> "none"]

\* a loop body that expands the category whatever categoryIsValid says
ExpandOneUnchecked(cs, link, failing) ==
    IF link \in failing
      THEN [cs |-> cs, raised |-> "FetchError", expanded |-> <<>>,
            failed |-> <<link>>]
    ELSE [cs |-> AddCategory(cs, link, cs.tree[link]), raised |-> "none",
          expanded |-> <<link>>, failed |-> <<>>]

\* the body of the inner loop of followDeeper for one (link, name) of the
\* batch; the name in open_categories is the title the link was listed with.
\* expanded and failed list the link when addCategory ran for it and when
\* its fetch raised.
ExpandOne(cs, link, failing) ==
    IF ~CategoryIsValid(CatTitle(link))
      THEN [cs |-> cs, raised |-> "none", expanded |-> <<>>, failed |-> <<>>]
    ELSE IF link \in failing
      THEN [cs |-> cs, raised |-> "FetchError", expanded |-> <<>>,
            failed |-> <<link>>]
    ELSE [cs |-> AddCategory(cs, link, cs.tree[link]), raised |-> "none",
          expanded |-> <<link>>, failed |-> <<>>]

\* an inner loop that catches the exception of a fetch and goes on
RECURSIVE ExpandBatchSwallows(_, _, _)
ExpandBatchSwallows(cs, batch, failing) ==
    IF batch = <<>>
      THEN [cs |-> cs, raised |-> "none", expanded |-> <<>>, failed |-> <<>>]
    ELSE LET r == ExpandOne(cs, Head(batch), failing)
             s == ExpandBatchSwallows(r.cs, Tail(batch), failing)
         IN [cs |-> s.cs, raised |-> "none",
             expanded |-> r.expanded \o s.expanded,
             failed |-> r.failed \o s.failed]

\* the inner loop of followDeeper over process_categories, in order, ended
\* by the first exception; the batch is halved to keep the evaluation flat
RECURSIVE ExpandBatch(_, _, _)
ExpandBatch(cs, batch, failing) ==
    IF batch = <<>>
      THEN [cs |-> cs, raised |-> "none", expanded |-> <<>>, failed |-> <<>>]
    ELSE IF Len(batch) = 1 THEN ExpandOne(cs, batch[1], failing)
    ELSE LET half == Len(batch) \div 2
             r == ExpandBatch(cs, SubSeq(batch, 1, half), failing)
             s == ExpandBatch(r.cs, SubSeq(batch, half + 1, Len(batch)),
                              failing)
         IN IF r.raised # "none" THEN r
            ELSE [cs |-> s.cs, raised |-> s.raised,
                  expanded |-> r.expanded \o s.expanded,
                  failed |-> s.failed]

\* a level that does not clear the frontier before it expands the batch
FollowLevelKeepsFrontier(cs, failing) ==
    ExpandBatch(cs, cs.open, failing)

\* a level that also expands what it has discovered itself
FollowLevelExpandsDiscovered(cs, failing) ==
    LET r == ExpandBatch([cs EXCEPT !.open = <<>>], cs.open, failing)
        s == ExpandBatch([r.cs EXCEPT !.open = <<>>], r.cs.open, failing)
    IN IF r.raised # "none" THEN r
       ELSE [cs |-> s.cs, raised |-> s.raised,
             expanded |-> r.expanded \o s.expanded, failed |-> s.failed]

\* one iteration of the loop over levels
FollowLevel(cs, failing) ==
    ExpandBatch([cs EXCEPT !.open = <<>>], cs.open, failing)

\* what a level did: the frontier it started with, the links it expanded
\* and the link whose fetch ended it
LevelEntry(frontier, r) ==
    [frontier |-> frontier, expanded |-> r.expanded, failed |-> r.failed,
     raised |-> r.raised]

\* followDeeper with the batch copied once, before the loop over levels
RECURSIVE FollowDeeperFrom(_, _, _, _)
FollowDeeperFrom(cs, batch, levels, failing) ==
    IF levels <= 0 THEN [cs |-> cs, raised |-> "none", levels |-> <<>>]
    ELSE LET r == ExpandBatch([cs EXCEPT !.open = <<>>], batch, failing)
             s == FollowDeeperFrom(r.cs, batch, levels - 1, failing)
         IN IF r.raised # "none"
              THEN [cs |-> r.cs, raised |-> r.raised,
                    levels |-> <<LevelEntry(batch, r)>>]
              ELSE [cs |-> s.cs, raised |-> s.raised,
                    levels |-> <<LevelEntry(batch, r)>> \o s.levels]

FollowDeeperStaleBatch(cs, levels, failing) ==
    FollowDeeperFrom(cs, cs.open, levels, failing)

\* the categories the levels of a followDeeper ran addCategory for
ExpandedIn(levels) == UNION {Range(levels[i].expanded) : i \in DOMAIN levels}

\* followDeeper(levels); levels lists what each level did
RECURSIVE FollowDeeperResult(_, _, _)
FollowDeeperResult(cs, levels, failing) ==
    IF levels <= 0 THEN [cs |-> cs, raised |-> "none", levels |-> <<>>]
    ELSE LET r == FollowLevel(cs, failing)
             s == FollowDeeperResult(r.cs, levels - 1, failing)
         IN IF r.raised # "none"
              THEN [cs |-> r.cs, raised |-> r.raised,
                    levels |-> <<LevelEntry(cs.open, r)>>]
              ELSE [cs |-> s.cs, raised |-> s.raised,
                    levels |-> <<LevelEntry(cs.open, r)>> \o s.levels]

----------------------------------------------------------------------------
(* Specification of the crawl *)

\* the categories a user starts from, and those whose fetch may fail
UserCats == web.cats \cap SmallCats

FailingSets == {{}} \cup {{c} : c \in UserCats}

SkipConfigs ==
    { [explicit |-> {}, rules |-> <<>>],
      [explicit |-> {CatTitle(1)}, rules |-> <<>>],
      [explicit |-> {}, rules |-> <<CatTitle(2)>>] }

\* the graph, the lists and the frontier of a new WikiCrawler
EmptyCrawl ==
    [tree |-> [n \in Nodes |-> <<>>], clist |-> <<>>, alist |-> <<>>,
     open |-> <<>>]

InitCrawl ==
    /\ category_tree = EmptyCrawl.tree
    /\ category_list = EmptyCrawl.clist
    /\ article_list = EmptyCrawl.alist
    /\ open_categories = EmptyCrawl.open
    /\ phase = "fresh"
    /\ seed = Root
    /\ work = 0
    /\ fd_log = <<>>
    /\ expanded_cats = {}

InitArticlePolicy ==
    /\ skip_articles = {}
    /\ skip_article_rules = <<>>
    /\ skip_article_categories = {}
    /\ skip_article_category_rules = <<>>

InitState ==
    /\ skipped_articles = <<>>
    /\ configured = {}
    /\ last = [op |-> "none"]
    /\ rc_pc = "idle"
    /\ rc_link = Root
    /\ rc_generation = {}
    /\ rc_ancestors = {}
    /\ rc_result = <<>>
    /\ archive_path = "None"
    /\ fs_index_exists = FALSE
    /\ fs_index = <<>>
    /\ fs_meta = <<>>
    /\ fs_txt = <<>>
    /\ dir_fresh = FALSE
    /\ article_texts = <<>>
    /\ article_links = <<>>
    /\ article_categories = <<>>
    /\ article_hieracy_categories = <<>>
    /\ rq_kind = "category"
    /\ rq_pc = "idle"
    /\ rq_pages = 1
    /\ rq_retry = 0
    /\ rq_log = <<>>
    /\ sr_pc = "none"
    /\ n_matches = 0
    /\ offset = 0
    /\ results = <<>>
    /\ sr_at = 0
    /\ sr_limit = 0
    /\ sr_chunk = 1
    /\ sr_yielded = <<>>
    /\ save_path = "None"
    /\ ckpt_exists = FALSE
    /\ ckpt_written = 0
    /\ ckpt_state = <<>>
    /\ proc = "running"
    /\ cl_interval = 10
    /\ cl_pc = "idle"
    /\ cl_pending = {}
    /\ cl_i = 0
    /\ cl_limit = 0
    /\ cl_flags = [links |-> TRUE, text |-> TRUE, categories |-> TRUE]
    /\ cl_failing = {}
    /\ cl_done = <<>>
    /\ cl_runs = 0
    /\ cl_complete = 0
    /\ raised = "none"

InitVariables == InitCrawl /\ InitArticlePolicy /\ InitState

Init ==
    /\ web \in SmallWebs \cup {ScenarioWeb}
    /\ \E k \in SkipConfigs :
          /\ skip_categories = k.explicit
          /\ skip_category_rules = k.rules
    /\ InitVariables

\* what a call of followDeeper(levels) counts against MaxWork
Cost(levels) == IF levels = 0 THEN 1 ELSE levels

SetCrawl(cs) ==
    /\ category_tree' = cs.tree
    /\ category_list' = cs.clist
    /\ article_list' = cs.alist
    /\ open_categories' = cs.open

StartFrom ==
    \E c \in UserCats : \E failing \in {{}, {c}} :
        LET r == StartFromResult(CrawlState, c, Tail(CatTitle(c)), failing)
        IN /\ rc_pc # "loop"
           /\ work < MaxWork
           /\ SetCrawl(r.cs)
           /\ raised' = r.raised
           /\ phase' = IF phase = "fresh" /\ r.raised = "none"
                         THEN "seeded" ELSE "other"
           /\ seed' = c
           /\ work' = work + 1
           /\ fd_log' = <<>>
           /\ expanded_cats' = IF r.raised = "none" THEN expanded_cats \cup {c}
                               ELSE expanded_cats
           /\ UNCHANGED crawlFrame

FollowDeeper ==
    \E levels \in 0..MaxLevels, failing \in FailingSets :
        LET r == FollowDeeperResult(CrawlState, levels, failing)
        IN /\ rc_pc # "loop"
           /\ work + Cost(levels) <= MaxWork
           /\ SetCrawl(r.cs)
           /\ raised' = r.raised
           /\ phase' = IF phase = "seeded" /\ levels = 1 /\ r.raised = "none"
                         THEN "deepened" ELSE "other"
           /\ work' = work + Cost(levels)
           /\ fd_log' = r.levels
           /\ expanded_cats' = expanded_cats \cup ExpandedIn(r.levels)
           /\ UNCHANGED <<crawlFrame, seed>>

Next == StartFrom \/ FollowDeeper

Spec == Init /\ [][Next]_vars

----------------------------------------------------------------------------
(* Properties of the crawl *)

\* the subcategories of the seed whose name passes categoryIsValid
ValidChildren == {c \in Range(web.sub[seed]) : CategoryIsValid(CatTitle(c))}

ThenFollowDeeper(r, n, failing) ==
    LET s == FollowDeeperResult(r.cs, n, failing)
    IN IF r.raised # "none" THEN r
       ELSE [cs |-> s.cs, raised |-> s.raised, levels |-> r.levels \o s.levels]

\* C7: for all m, n >= 0 and the same fetcher responses, followDeeper(m+n)
\* leaves the parent graph, the category index, the article index and the
\* Frontier as followDeeper(m) followed by followDeeper(n) does.
C7_FollowDeeperComposes ==
    \A m \in 0..MaxLevels, n \in 0..MaxLevels, failing \in FailingSets :
        FollowDeeperResult(CrawlState, m + n, failing) =
            ThenFollowDeeper(FollowDeeperResult(CrawlState, m, failing),
                             n, failing)

C7_Witness ==
    LET r1 == FollowDeeperResult(CrawlState, 1, {})
        r2 == FollowDeeperResult(CrawlState, 2, {})
    IN /\ r1.cs # CrawlState
       /\ r2.cs # r1.cs
       /\ r2 = ThenFollowDeeper(r1, 1, {})
       /\ \E c \in UserCats :
             FollowDeeperResult(CrawlState, 2, {c}).raised = "FetchError"


\* C15: a fetch failure while followDeeper expands a category ends the
\* call with the error: the level it happens in is the last one of the call,
\* the call ends with the exception, and of the batch of that level only
\* categories listed before the failing one have been expanded.
C15_FetchFailureIsFatal ==
    \A i \in DOMAIN fd_log :
        LET e == fd_log[i]
        IN /\ e.failed # <<>> <=> e.raised = "FetchError"
           /\ e.failed # <<>> =>
                 /\ i = Len(fd_log)
                 /\ raised = "FetchError"
                 /\ \E p \in DOMAIN e.frontier :
                       /\ e.frontier[p] = e.failed[1]
                       /\ Range(e.expanded) \subseteq
                             {e.frontier[q] : q \in 1..(p - 1)}

C15_Witness ==
    /\ fd_log # <<>>
    /\ raised = "FetchError"
    /\ LET e == fd_log[Len(fd_log)]
       IN /\ Len(e.frontier) >= 2
          /\ e.failed = <<e.frontier[1]>>
          /\ CategoryIsValid(CatTitle(e.frontier[2]))
          /\ e.expanded = <<>>

\* C20: within one level of followDeeper the categories expanded are, in
\* order, those of the Frontier at the start of the level whose name passes
\* categoryIsValid (all of them when the level ends without an exception);
\* what the level discovers is not expanded by it and forms the Frontier of
\* the next level.
C20_LevelDiscipline ==
    \A i \in DOMAIN fd_log :
        LET e == fd_log[i]
            valid == SelectSeq(e.frontier,
                               LAMBDA c : CategoryIsValid(CatTitle(c)))
        IN /\ Len(e.expanded) <= Len(valid)
           /\ e.expanded = SubSeq(valid, 1, Len(e.expanded))
           /\ e.raised = "none" => e.expanded = valid
           /\ i < Len(fd_log) =>
                 Range(fd_log[i + 1].frontier) =
                     UNION {Range(web.sub[c]) : c \in Range(e.expanded)}

C20_Witness ==
    /\ Len(fd_log) >= 2
    /\ \E d \in web.cats :
          /\ d \notin Range(fd_log[1].frontier)
          /\ \E c \in Range(fd_log[1].expanded) : d \in Range(web.sub[c])
          /\ d \notin Range(fd_log[1].expanded)
          /\ d \in Range(fd_log[2].expanded)

\* C18 as claimed: no call of startFrom or followDeeper takes a parent out
\* of the parent list of a node; a category that is added again, also as a
\* new seed, keeps the parents recorded for it.
C18_ParentEdgesOnlyAdded ==
    [][\A x \in Nodes : \A p \in Range(category_tree[x]) :
           p \in Range(category_tree'[x])]_vars

\* C21 as claimed: when a followDeeper call has returned, the Frontier
\* holds no category that addCategory has already run for.
C21_FrontierExcludesExpanded ==
    (fd_log # <<>> /\ raised = "none") =>
        Range(open_categories) \cap expanded_cats = {}

\* C26 as claimed: when followDeeper ends with the exception of a fetch,
\* every category of the level's batch that passes categoryIsValid and was
\* not expanded, the failing one included, is in the Frontier afterwards.
C26_AbortKeepsQueuedWork ==
    (fd_log # <<>> /\ raised = "FetchError") =>
        LET e == fd_log[Len(fd_log)]
        IN \A c \in Range(e.frontier) \ Range(e.expanded) :
               CategoryIsValid(CatTitle(c)) => c \in Range(open_categories)

\* a step that is a call followDeeper(1)
OneLevelStep == work' = work + 1 /\ Len(fd_log') = 1

\* the categories a level expanded that list c as a subcategory, in the
\* order of their expansion
ListedBy(c, e) == SelectSeq(e.expanded, LAMBDA p : c \in Range(web.sub[p]))

\* C24 as claimed: a category of the Frontier whose name fails
\* categoryIsValid is neither fetched nor expanded by the level, is not in
\* the Frontier after it, and keeps its parent list and its name-index entry
\* as they were.
C24_PrunedCategoryUntouched ==
    [][OneLevelStep =>
         \A c \in Range(open_categories) :
             ~CategoryIsValid(CatTitle(c)) =>
                 /\ c \notin Range(fd_log'[1].expanded)
                 /\ c \notin Range(fd_log'[1].failed)
                 /\ c \notin Range(open_categories')
                 /\ category_tree'[c] = category_tree[c]
                 /\ category_list'[c] = category_list[c]]_vars

\* C24 as amended: such a category is neither fetched nor expanded by the
\* level; when no category expanded in the level lists it, it is not in the
\* Frontier afterwards and its parent list and name-index entry are as they
\* were; when some do, it is in the Frontier again, its parent list is the
\* old one followed by those categories, and its name-index entry is the
\* title it is listed with.
C24_PrunedCategoryNotExpanded ==
    [][OneLevelStep =>
         \A c \in Range(open_categories) :
             ~CategoryIsValid(CatTitle(c)) =>
                 LET relisted == ListedBy(c, fd_log'[1])
                 IN /\ c \notin Range(fd_log'[1].expanded)
                    /\ c \notin Range(fd_log'[1].failed)
                    /\ c \in Range(open_categories') <=> relisted # <<>>
                    /\ category_tree'[c] = category_tree[c] \o relisted
                    /\ category_list'[c] = IF relisted # <<>> THEN CatTitle(c)
                                           ELSE category_list[c]]_vars

C24_Witness ==
    /\ Len(fd_log) = 1
    /\ \E c \in Range(fd_log[1].frontier) :
          /\ ~CategoryIsValid(CatTitle(c))
          /\ ListedBy(c, fd_log[1]) # <<>>
          /\ c \in Range(open_categories)
          /\ Len(category_tree[c]) >= 2

\* the links the crawler has discovered and not dropped: the keys of the
\* Frontier and of the known-article index
Discovered == Range(open_categories) \cup Range(article_list)

----------------------------------------------------------------------------
(* Specification of the category skip policy *)

\* lists of at most MaxRules patterns
RuleLists(patterns) == UNION {[1..k -> patterns] : k \in 0..MaxRules}

CategoryNames == {CatTitle(1), CatTitle(2), <<"Portal", "1">>}
CategoryPatterns == {<<"Category:">>, CatTitle(1)}

AddSkipCategoryExplicit ==
    \E names \in SUBSET CategoryNames :
        /\ skip_categories' = names
        /\ configured' = configured \cup {"SkipCategoryExplicit"}
        /\ last' = [op |-> "none"]
        /\ UNCHANGED <<policyFrame, skip_category_rules, articleRuleVars,
                       skipped_articles>>

AddSkipCategoryRulebased ==
    \E rules \in RuleLists(CategoryPatterns) :
        /\ skip_category_rules' = rules
        /\ configured' = configured \cup {"SkipCategoryRulebased"}
        /\ last' = [op |-> "none"]
        /\ UNCHANGED <<policyFrame, skip_categories, articleRuleVars,
                       skipped_articles>>

CheckCategory ==
    \E name \in CategoryNames :
        /\ last' = [op |-> "categoryIsValid", name |-> name,
                    ret |-> IF CategoryIsValid(name) THEN "True" ELSE "False",
                    raised |-> "none", recorded |-> FALSE]
        /\ UNCHANGED <<policyFrame, ruleVars, articleRuleVars,
                       skipped_articles, configured>>

InitRules ==
    /\ web = ScenarioWeb
    /\ skip_categories = {}
    /\ skip_category_rules = <<>>
    /\ InitVariables

NextCategoryRules ==
    AddSkipCategoryExplicit \/ AddSkipCategoryRulebased \/ CheckCategory

SpecCategoryRules == InitRules /\ [][NextCategoryRules]_vars

\* C10: categoryIsValid(name) returns False exactly when name is in the
\* explicit category skip set or matches at least one category rule, and True
\* otherwise; with a category policy that was never configured it returns
\* True for every name and raises no error.
C10_CategoryIsValid ==
    last.op = "categoryIsValid" =>
        /\ last.raised = "none"
        /\ last.ret \in {"True", "False"}
        /\ last.ret = "False" <=>
              \/ last.name \in skip_categories
              \/ \E i \in DOMAIN skip_category_rules :
                    ReMatch(skip_category_rules[i], last.name)
        /\ configured = {} => last.ret = "True"

C10_Witness ==
    /\ last.op = "categoryIsValid"
    /\ last.ret = "False"
    /\ last.name \in skip_categories
    /\ skip_category_rules # <<>>
    /\ \A i \in DOMAIN skip_category_rules :
          ~ReMatch(skip_category_rules[i], last.name)

----------------------------------------------------------------------------
(* Specification of the article skip policy *)

ArticleNames == {ArtTitle(-1), ArtTitle(-2), <<"List", "1">>}
ArticlePatterns == {<<"Article">>, ArtTitle(-1)}

AddSkipArticleExplicit ==
    \E names \in SUBSET ArticleNames :
        /\ skip_articles' = names
        /\ configured' = configured \cup {"SkipArticleExplicit"}
        /\ last' = [op |-> "none"]
        /\ UNCHANGED <<policyFrame, ruleVars, skip_article_rules,
                       skip_article_categories, skip_article_category_rules,
                       skipped_articles>>

AddSkipArticleRulebased ==
    \E rules \in RuleLists(ArticlePatterns) :
        /\ skip_article_rules' = rules
        /\ configured' = configured \cup {"SkipArticleRulebased"}
        /\ last' = [op |-> "none"]
        /\ UNCHANGED <<policyFrame, ruleVars, skip_articles,
                       skip_article_categories, skip_article_category_rules,
                       skipped_articles>>

CheckArticle ==
    \E name \in ArticleNames :
        LET r == ArticleIsValid(name)
        IN /\ last' = [op |-> "articleIsValid", name |-> name,
                       ret |-> r.ret, raised |-> r.raised,
                       recorded |-> r.skipped # skipped_articles]
           /\ skipped_articles' = r.skipped
           /\ UNCHANGED <<policyFrame, ruleVars, articleRuleVars,
                          configured>>

NextArticleRules ==
    AddSkipArticleExplicit \/ AddSkipArticleRulebased \/ CheckArticle

SpecArticleRules == InitRules /\ [][NextArticleRules]_vars

\* C9: articleIsValid(name) returns False whenever name is in the explicit
\* article skip set, even when no rule matches it, and records an explicit
\* reason for name in the SkipRecord; when name is not in the explicit set
\* and several rules match, it returns False and the recorded reason is that
\* of the first matching rule in list order; when neither the set nor any
\* rule matches it returns True and records nothing.
C9_ArticleIsValid ==
    last.op = "articleIsValid" =>
        LET first == FirstMatch(skip_article_rules, last.name)
        IN /\ last.raised = "none"
           /\ last.name \in skip_articles =>
                 /\ last.ret = "False"
                 /\ last.name \in DOMAIN skipped_articles
                 /\ skipped_articles[last.name] = <<"Explicit", last.name>>
           /\ (last.name \notin skip_articles /\ first # 0) =>
                 /\ last.ret = "False"
                 /\ last.name \in DOMAIN skipped_articles
                 /\ skipped_articles[last.name] =
                        <<"Rule", skip_article_rules[first]>>
           /\ (last.name \notin skip_articles /\ first = 0) =>
                 /\ last.ret = "True"
                 /\ ~last.recorded

----------------------------------------------------------------------------
(* Specification of the head-category skip policy *)

MaxHeads == 2

StubTitle == <<"Category:", "1", " stubs">>
HeadNames == {CatTitle(2), StubTitle}
HeadPatterns == {<<"Category:", "1">>, CatTitle(2)}

\* the values of the dict of head categories, in the order of the page
HeadLists == UNION {[1..k -> HeadNames] : k \in 0..MaxHeads}

AddSkipArticleCategoryBased ==
    \E names \in SUBSET HeadNames :
        /\ skip_article_categories' = names
        /\ configured' = configured \cup {"SkipArticleCategoryBased"}
        /\ last' = [op |-> "none"]
        /\ UNCHANGED <<policyFrame, ruleVars, skip_articles,
                       skip_article_rules, skip_article_category_rules,
                       skipped_articles>>

AddSkipArticleCategoryRuleBased ==
    \E rules \in RuleLists(HeadPatterns) :
        /\ skip_article_category_rules' = rules
        /\ configured' = configured \cup {"SkipArticleCategoryRuleBased"}
        /\ last' = [op |-> "none"]
        /\ UNCHANGED <<policyFrame, ruleVars, skip_articles,
                       skip_article_rules, skip_article_categories,
                       skipped_articles>>

CheckArticleCategories ==
    \E name \in {ArtTitle(-1), ArtTitle(-2)}, heads \in HeadLists :
        LET r == ArticleCategoriesAreValid(name, heads)
        IN /\ last' = [op |-> "articleCategoriesAreValid", name |-> name,
                       heads |-> heads, ret |-> r.ret, raised |-> r.raised,
                       before |-> skipped_articles]
           /\ skipped_articles' = r.skipped
           /\ UNCHANGED <<policyFrame, ruleVars, articleRuleVars,
                          configured>>

NextHeadRules ==
    \/ AddSkipArticleCategoryBased
    \/ AddSkipArticleCategoryRuleBased
    \/ CheckArticleCategories

SpecHeadRules == InitRules /\ [][NextHeadRules]_vars

\* the head category is in the explicit set / matches a category rule
HeadIsListed(h) == h \in skip_article_categories
HeadMatchesRule(h) ==
    \E i \in DOMAIN skip_article_category_rules :
        ReMatch(skip_article_category_rules[i], h)

\* C11: articleCategoriesAreValid(name, heads) returns False exactly when
\* some head category is in the explicit skip-category set or matches a
\* skip-category rule; when a rule caused the rejection (the first rejected
\* head is not in the explicit set) the SkipRecord holds, under the article's
\* name, a rule-based reason naming a configured rule that matches a head;
\* when it returns True the SkipRecord is unchanged.
C11_ArticleCategoriesAreValid ==
    last.op = "articleCategoriesAreValid" =>
        LET heads == last.heads
            rejected == {i \in DOMAIN heads :
                            HeadIsListed(heads[i]) \/ HeadMatchesRule(heads[i])}
        IN /\ last.raised = "none"
           /\ last.ret \in {"True", "False"}
           /\ last.ret = "False" <=> rejected # {}
           /\ (rejected # {} /\ ~HeadIsListed(heads[Min(rejected)])) =>
                 /\ last.name \in DOMAIN skipped_articles
                 /\ skipped_articles[last.name][1] = "Rule"
                 /\ \E i \in DOMAIN skip_article_category_rules :
                       /\ skipped_articles[last.name][2] =
                             skip_article_category_rules[i]
                       /\ ReMatch(skip_article_category_rules[i],
                                  heads[Min(rejected)])
           /\ last.ret = "True" => skipped_articles = last.before

C11_Witness ==
    /\ last.op = "articleCategoriesAreValid"
    /\ last.ret = "False"
    /\ \E i \in DOMAIN last.heads : last.heads[i] = StubTitle
    /\ \A i \in DOMAIN last.heads : ~HeadIsListed(last.heads[i])
    /\ skip_article_categories # {}
    /\ last.name \in DOMAIN skipped_articles
    /\ skipped_articles[last.name] = <<"Rule", <<"Category:", "1">> >>
    /\ last.name \notin DOMAIN last.before

----------------------------------------------------------------------------
(* retrieveCategories *)

\* the link of the first entry of article_list that has the name, Root when
\* there is none (the code then raises IndexError)
RECURSIVE FirstLinkNamed(_, _)
FirstLinkNamed(links, name) ==
    IF links = <<>> THEN Root
    ELSE IF ArtTitle(Head(links)) = name THEN Head(links)
    ELSE FirstLinkNamed(Tail(links), name)

\* the loop condition without the cap on the collected ancestors
RetrieveLoopCondNoCap(generation, ancestors) ==
    \E a \in generation : a # Root

\* any(a for a in ancestor_generation) > 0 and len(ancestors) < 100
RetrieveLoopCond(generation, ancestors) ==
    /\ \E a \in generation : a # Root
    /\ Cardinality(ancestors) < VisitedCap

\* the loop body without difference_update(ancestors)
RetrieveStepKeepsVisited(tree, generation, ancestors) ==
    LET next == UNION {Range(tree[p]) : p \in generation}
    IN [generation |-> next, ancestors |-> ancestors \cup next]

\* the loop body: the parents of the generation that are not yet collected
\* become the next generation and are collected
RetrieveStepResult(tree, generation, ancestors) ==
    LET next == UNION {Range(tree[p]) : p \in generation} \ ancestors
    IN [generation |-> next, ancestors |-> ancestors \cup next]

\* the list comprehension that ends retrieveCategories, as the names by link
RetrieveNames(clist, ancestors) ==
    [a \in ancestors \ {Root} |-> StripCategory(clist[a])]

RetrieveBegin ==
    \E a \in web.arts :
        LET link == FirstLinkNamed(article_list, ArtTitle(a))
        IN /\ rc_pc # "loop"
           /\ IF link = Root
                THEN /\ raised' = "IndexError"
                     /\ rc_pc' = "idle"
                     /\ UNCHANGED <<rc_link, rc_generation, rc_ancestors>>
                ELSE /\ raised' = "none"
                     /\ rc_pc' = "loop"
                     /\ rc_link' = link
                     /\ rc_generation' = Range(category_tree[link])
                     /\ rc_ancestors' = {}
           /\ rc_result' = <<>>
           /\ UNCHANGED <<resolveFrame, phase, seed, work, fd_log, expanded_cats>>

RetrieveStep ==
    LET r == RetrieveStepResult(category_tree, rc_generation, rc_ancestors)
    IN /\ rc_pc = "loop"
       /\ RetrieveLoopCond(rc_generation, rc_ancestors)
       /\ rc_generation' = r.generation
       /\ rc_ancestors' = r.ancestors
       /\ UNCHANGED <<resolveFrame, rc_pc, rc_link, rc_result, histVars>>

RetrieveEnd ==
    /\ rc_pc = "loop"
    /\ ~RetrieveLoopCond(rc_generation, rc_ancestors)
    /\ rc_pc' = "done"
    /\ IF rc_ancestors \ {Root} \subseteq DOMAIN category_list
         THEN /\ rc_result' = RetrieveNames(category_list, rc_ancestors)
              /\ raised' = "none"
         ELSE /\ rc_result' = <<>>
              /\ raised' = "KeyError"
    /\ UNCHANGED <<resolveFrame, rc_link, rc_generation, rc_ancestors,
                   phase, seed, work, fd_log, expanded_cats>>

\* A wiki whose category w+2 is a subcategory of w categories, each of them
\* a subcategory of category 1; its one article is a page of category w+2.
FanWeb(w) ==
    [cats |-> 1..(w + 2), arts |-> {-1},
     sub |-> [c \in 1..(w + 2) |->
                 IF c = 1 THEN [i \in 1..w |-> i + 1]
                 ELSE IF c = w + 2 THEN <<>> ELSE <<w + 2>>],
     pages |-> [c \in 1..(w + 2) |-> IF c = w + 2 THEN <<-1>> ELSE <<>>]]

FanWebs == {FanWeb(w) : w \in {FanWidth - 2, FanWidth - 1, FanWidth}}

InitResolve ==
    /\ web \in SmallWebs \cup FanWebs
    /\ skip_categories = {}
    /\ skip_category_rules = <<>>
    /\ InitVariables

NextResolve ==
    StartFrom \/ FollowDeeper \/ RetrieveBegin \/ RetrieveStep \/ RetrieveEnd

SpecResolve == InitResolve /\ [][NextResolve]_vars

\* the loop of retrieveCategories runs on: nothing else holds it up
SpecResolveFair ==
    SpecResolve /\ WF_vars(RetrieveStep) /\ WF_vars(RetrieveEnd)

\* the nodes reachable from the nodes of S along parent edges
RECURSIVE ParentClosure(_)
ParentClosure(S) ==
    LET more == S \cup UNION {Range(category_tree[n]) : n \in S}
    IN IF more = S THEN S ELSE ParentClosure(more)

\* the transitive ancestors of a node
AncestorsOf(n) == ParentClosure(Range(category_tree[n]))

\* C1: retrieveCategories(article) terminates for every finite category
\* graph, also when the article's ancestor chain contains a cycle or a node
\* has several parents: a call that has entered its loop leaves it.
C1_RetrieveTerminates == (rc_pc = "loop") ~> (rc_pc = "done")

C1_Witness ==
    /\ rc_pc = "done"
    /\ \E c \in AncestorsOf(rc_link) : c # Root /\ c \in AncestorsOf(c)
    /\ \E n \in AncestorsOf(rc_link) \cup {rc_link} :
          Cardinality(Range(category_tree[n])) > 1

\* C2 as claimed: the set of collected ancestors never holds more than 100
\* nodes, so the returned list has at most 100 entries.
C2_VisitedNeverExceedsCap ==
    /\ Cardinality(rc_ancestors) <= VisitedCap
    /\ Cardinality(DOMAIN rc_result) <= VisitedCap

\* C2 as amended: a new generation of parents is only collected while the
\* set of collected ancestors holds fewer than 100 nodes, so all collected
\* ancestors but those of the generation added last are fewer than 100; the
\* set, and the returned list, may exceed 100 by that last generation.
C2_CapCheckedBetweenGenerations ==
    Cardinality(rc_ancestors \ rc_generation) < VisitedCap

C2_Witness ==
    /\ rc_pc = "done"
    /\ Cardinality(rc_ancestors) > VisitedCap
    /\ \E a \in rc_generation : a # Root
    /\ Cardinality(DOMAIN rc_result) > VisitedCap

\* C3: for an article whose transitive ancestor set has fewer than 100
\* nodes, retrieveCategories returns exactly the names of all categories
\* reachable by following parent edges from the article, every direct parent
\* category included, and excludes only the synthetic root ''.
C3_ReturnsAllAncestors ==
    (rc_pc = "done" /\ raised = "none"
        /\ Cardinality(AncestorsOf(rc_link)) < VisitedCap) =>
        /\ DOMAIN rc_result = AncestorsOf(rc_link) \ {Root}
        /\ \A c \in DOMAIN rc_result :
              rc_result[c] = StripCategory(category_list[c])

----------------------------------------------------------------------------
(* collectArticles and the archive *)

MaxRuns == 2
MaxLimit == 2

\* limit=None
NoLimit == 0 - 1

\* hashlib.md5(article_link.encode('utf-8')).hexdigest()
Digest(link) == <<"md5", link>>

\* page.getText(), page.getLinks() and page.getHeadCategories() of the
\* article page behind a link
PageText(a) == <<ArtTitle(a)>>
PageLinks(a) == SortedSeq(web.arts \ {a})
HeadCategories(a) ==
    LET heads == SortedSeq({c \in web.cats \cap DOMAIN web.pages :
                               a \in Range(web.pages[c])})
    IN [i \in 1..Len(heads) |-> CatTitle(heads[i])]

\* ' stubs' in c
IsStub(c) == \E i \in 1..Len(c) : c[i] = " stubs"

\* the while loop of retrieveCategories, run to its end
RECURSIVE RetrieveLoop(_, _, _)
RetrieveLoop(tree, generation, ancestors) ==
    IF RetrieveLoopCond(generation, ancestors)
      THEN LET r == RetrieveStepResult(tree, generation, ancestors)
           IN RetrieveLoop(tree, r.generation, r.ancestors)
      ELSE ancestors

\* retrieveCategories(name) for a name of article_list
RetrieveCategories(name) ==
    LET link == FirstLinkNamed(article_list, name)
    IN RetrieveNames(category_list,
                     RetrieveLoop(category_tree,
                                  Range(category_tree[link]), {}))

\* collectMetaInfo followed by the update with Article_links
CollectMetaInfo(name, link, heads, flags) ==
    LET m0 == DictSet(DictSet(<<>>, "Article", name), "Link", link)
        kept == SelectSeq(heads, LAMBDA c : ~IsStub(c))
        m1 == IF flags.categories
                THEN DictSet(DictSet(m0, "Hierachical_categories",
                                     RetrieveCategories(name)),
                             "Article_categories",
                             [i \in 1..Len(kept) |-> StripCategory(kept[i])])
                ELSE m0
    IN IF flags.links THEN DictSet(m1, "Article_links", PageLinks(link))
       ELSE m1

\* A line of index.txt is modelled by line.strip().split('='), the fields
\* between its '=' signs: <<digest, link>> for a line '<digest>=<link>',
\* <<digest>> for a line that was cut before the '='.
IndexLine(a) == <<Digest(a), a>>
TruncatedLine(a) == <<Digest(a)>>

\* _, link = line.strip().split('=') unpacks exactly two fields
Unpacks(line) == Len(line) = 2

\* readIndex(): the links of the lines of index.txt; the first line that
\* does not unpack raises ValueError
ReadIndex ==
    IF \A i \in 1..Len(fs_index) : Unpacks(fs_index[i])
      THEN [links |-> {fs_index[i][2] : i \in 1..Len(fs_index)},
            raised |-> "none"]
      ELSE [links |-> {}, raised |-> "ValueError"]

\* what an earlier session may have left in index.txt
IndexContents ==
    { <<>>, <<IndexLine(-1)>>, <<TruncatedLine(-1)>>,
      <<IndexLine(-1), TruncatedLine(-2)>> }

MaxInterval == 2

\* the attributes save() finds with dir(self), in that order, apart from the
\* settings of the printing (keep_flag, log, logfile, print_last)
SnapshotVars ==
    <<"archive_path", "article_categories", "article_hieracy_categories",
      "article_links", "article_list", "article_texts", "category_list",
      "category_tree", "open_categories", "save_path",
      "skip_article_categories", "skip_article_category_rules",
      "skip_article_rules", "skip_articles", "skip_categories",
      "skip_category_rules", "skipped_articles">>

\* dill.dump(child_vars, fp) and one dill.dump for each attribute
TotalPickles == 1 + Len(SnapshotVars)

\* a dump that writes an empty dict for open_categories
AttributeValuesNoFrontier(skipped, texts, links, categories, hieracy, path) ==
    [archive_path |-> archive_path,
     article_categories |-> categories,
     article_hieracy_categories |-> hieracy,
     article_links |-> links,
     article_list |-> article_list,
     article_texts |-> texts,
     category_list |-> category_list,
     category_tree |-> category_tree,
     open_categories |-> <<>>,
     save_path |-> path,
     skip_article_categories |-> skip_article_categories,
     skip_article_category_rules |-> skip_article_category_rules,
     skip_article_rules |-> skip_article_rules,
     skip_articles |-> skip_articles,
     skip_categories |-> skip_categories,
     skip_category_rules |-> skip_category_rules,
     skipped_articles |-> skipped]

\* getattr(self, var) for the attributes of SnapshotVars; the arguments are
\* the attributes that a pass of collectArticles assigns, and save_path
AttributeValues(skipped, texts, links, categories, hieracy, path) ==
    [archive_path |-> archive_path,
     article_categories |-> categories,
     article_hieracy_categories |-> hieracy,
     article_links |-> links,
     article_list |-> article_list,
     article_texts |-> texts,
     category_list |-> category_list,
     category_tree |-> category_tree,
     open_categories |-> open_categories,
     save_path |-> path,
     skip_article_categories |-> skip_article_categories,
     skip_article_category_rules |-> skip_article_category_rules,
     skip_article_rules |-> skip_article_rules,
     skip_articles |-> skip_articles,
     skip_categories |-> skip_categories,
     skip_category_rules |-> skip_category_rules,
     skipped_articles |-> skipped]

\* setArchivePath(archive_path): the directory is created when missing; an
\* existing directory holds what an earlier session left in it
SetArchivePath ==
    /\ archive_path = "None"
    /\ proc = "running"
    /\ cl_pc # "loop"
    /\ rc_pc # "loop"
    /\ archive_path' = "archive"
    /\ \/ /\ dir_fresh' = TRUE
          /\ fs_index_exists' = FALSE
          /\ fs_index' = <<>>
       \/ /\ dir_fresh' = FALSE
          /\ fs_index_exists' = TRUE
          /\ fs_index' \in IndexContents
    /\ raised' = "none"
    /\ UNCHANGED <<collectFrame, skipped_articles, fs_meta, fs_txt,
                   memoryVars, collectVars, saveVars>>

FlagSets ==
    {[links |-> TRUE, text |-> TRUE, categories |-> TRUE],
     [links |-> FALSE, text |-> TRUE, categories |-> TRUE],
     [links |-> TRUE, text |-> FALSE, categories |-> TRUE],
     [links |-> TRUE, text |-> TRUE, categories |-> FALSE]}
Limits == {NoLimit} \cup (0..MaxLimit)
FailingArticles == {{}} \cup {{a} : a \in web.arts \cap SmallArts}
Intervals == 1..MaxInterval

\* collectArticles up to the for loop: readIndex() when there is an archive
\* (open(..., "r") raises when index.txt is missing), the pending set, limit
CollectBegin ==
    \E limit \in Limits, flags \in FlagSets, failing \in FailingArticles,
       interval \in Intervals :
        LET indexed == archive_path # "None" /\ fs_index_exists
            loaded == IF indexed THEN ReadIndex.links
                      ELSE DOMAIN article_texts
            pending == Range(article_list) \ loaded
        IN /\ cl_pc # "loop"
           /\ rc_pc # "loop"
           /\ proc = "running"
           /\ cl_runs < MaxRuns
           /\ cl_runs' = cl_runs + 1
           /\ cl_interval' = interval
           /\ cl_done' = <<>>
           /\ cl_i' = 0
           /\ cl_flags' = flags
           /\ cl_failing' = failing
           /\ IF archive_path # "None" /\ ~fs_index_exists
                THEN /\ raised' = "FileNotFoundError"
                     /\ cl_pc' = "done"
                     /\ cl_pending' = {}
                     /\ cl_limit' = limit
              ELSE IF indexed /\ ReadIndex.raised # "none"
                THEN /\ raised' = ReadIndex.raised
                     /\ cl_pc' = "done"
                     /\ cl_pending' = {}
                     /\ cl_limit' = limit
                ELSE /\ raised' = "none"
                     /\ cl_pc' = "loop"
                     /\ cl_pending' = pending
                     /\ cl_limit' = IF limit = NoLimit
                                      THEN Cardinality(pending) ELSE limit
           /\ UNCHANGED <<collectFrame, skipped_articles, archiveVars,
                          memoryVars, saveVars, cl_complete>>

\* a pass of the loop that takes no checkpoint
CheckpointNever(i, interval) == FALSE

\* (i+1) % save_intervall == 0, i the index of the pass within the call
CheckpointDue(i, interval) == (i + 1) % interval = 0

\* what a pass of the loop did with an article, and whether the archive held
\* its text before the pass
Entry(link, outcome, exc) ==
    [link |-> link, outcome |-> outcome, raised |-> exc,
     archived |-> Digest(link) \in DOMAIN fs_txt]

\* one pass of the for loop of collectArticles, for an article of the set.
\* saveArticle writes the text file and opens index.txt for appending, which
\* creates it; the index line is printed without file=fp and so goes to the
\* standard output.  A pass that ends without an exception takes the
\* checkpoint when save_path is set and i+1 is a multiple of save_intervall.
CollectStep ==
    \E link \in cl_pending :
        LET name == ArtTitle(link)
            nameCheck == ArticleIsValid(name)
            heads == HeadCategories(link)
            headCheck == ArticleCategoriesAreValid(name, heads)
            meta == CollectMetaInfo(name, link, heads, cl_flags)
            stored == archive_path # "None"
        IN /\ cl_pc = "loop"
           /\ proc = "running"
           /\ cl_i # cl_limit
           /\ cl_pending' = cl_pending \ {link}
           /\ cl_i' = cl_i + 1
           /\ IF nameCheck.raised # "none"
                THEN \* articleIsValid raises outside the try block
                     /\ raised' = nameCheck.raised
                     /\ cl_pc' = "done"
                     /\ cl_done' = DictSet(cl_done, link,
                            Entry(link, "NAME_REJECTED", nameCheck.raised))
                     /\ UNCHANGED <<skipped_articles, archiveVars,
                                    memoryVars>>
              ELSE IF link \in cl_failing
                THEN \* the handler reads self.broken_links, which no code
                     \* of the class assigns
                     /\ raised' = "AttributeError"
                     /\ cl_pc' = "done"
                     /\ cl_done' = DictSet(cl_done, link,
                            Entry(link, "FETCH_FAILED", "AttributeError"))
                     /\ UNCHANGED <<skipped_articles, archiveVars,
                                    memoryVars>>
              ELSE IF headCheck.ret = "False"
                THEN /\ raised' = "none"
                     /\ cl_pc' = "loop"
                     /\ skipped_articles' = headCheck.skipped
                     /\ cl_done' = DictSet(cl_done, link,
                            Entry(link, "CATEGORY_REJECTED", "none"))
                     /\ UNCHANGED <<archiveVars, memoryVars>>
              ELSE /\ raised' = "none"
                   /\ cl_pc' = "loop"
                   /\ cl_done' = DictSet(cl_done, link,
                          Entry(link, "COLLECTED", "none"))
                   /\ article_texts' =
                        IF ~cl_flags.text THEN article_texts
                        ELSE DictSet(article_texts, link,
                                     IF stored THEN <<"True">>
                                     ELSE <<"text", PageText(link)>>)
                   /\ fs_txt' = IF cl_flags.text /\ stored
                                  THEN DictSet(fs_txt, Digest(link),
                                               PageText(link))
                                  ELSE fs_txt
                   /\ fs_index_exists' =
                        (fs_index_exists \/ (cl_flags.text /\ stored))
                   /\ fs_index' = fs_index
                   /\ article_categories' =
                        IF "Article_categories" \in DOMAIN meta
                          THEN DictSet(article_categories, link,
                                       meta["Article_categories"])
                          ELSE article_categories
                   /\ article_hieracy_categories' =
                        IF "Hierachical_categories" \in DOMAIN meta
                          THEN DictSet(article_hieracy_categories, link,
                                       meta["Hierachical_categories"])
                          ELSE article_hieracy_categories
                   /\ article_links' =
                        IF "Article_links" \in DOMAIN meta
                          THEN DictSet(article_links, link,
                                       meta["Article_links"])
                          ELSE article_links
                   /\ fs_meta' = IF stored
                                   THEN DictSet(fs_meta, Digest(link), meta)
                                   ELSE fs_meta
                   /\ UNCHANGED <<skipped_articles, archive_path, dir_fresh>>
           /\ UNCHANGED <<collectFrame, cl_limit, cl_interval, cl_flags,
                          cl_failing, cl_runs, cl_complete, save_path, proc>>
           \* if hasattr(self, 'save_path') and (i+1) % save_intervall == 0
           /\ IF /\ cl_pc' = "loop"
                 /\ save_path # "None"
                 /\ CheckpointDue(cl_i, cl_interval)
                THEN /\ ckpt_exists' = TRUE
                     /\ ckpt_written' = TotalPickles
                     /\ ckpt_state' =
                          AttributeValues(skipped_articles', article_texts',
                                          article_links', article_categories',
                                          article_hieracy_categories',
                                          save_path)
                ELSE UNCHANGED <<ckpt_exists, ckpt_written, ckpt_state>>

\* the for loop ends: the set is exhausted or i == limit
CollectEnd ==
    /\ cl_pc = "loop"
    /\ proc = "running"
    /\ (cl_pending = {} \/ cl_i = cl_limit)
    /\ cl_pc' = "done"
    /\ raised' = "none"
    /\ cl_complete' = IF archive_path # "None" /\ cl_pending = {}
                        THEN cl_runs ELSE cl_complete
    /\ UNCHANGED <<collectFrame, skipped_articles, archiveVars, memoryVars,
                   saveVars, cl_pending, cl_i, cl_limit, cl_interval, cl_flags,
                   cl_failing, cl_done, cl_runs>>

\* the article skip policies of the sessions, as the addSkipArticle* methods
\* leave them
ArticlePolicies ==
    { [explicit |-> {}, rules |-> <<>>, cats |-> {}, catRules |-> <<>>],
      [explicit |-> {ArtTitle(-1)}, rules |-> <<>>, cats |-> {},
       catRules |-> <<>>],
      [explicit |-> {}, rules |-> <<ArtTitle(-2)>>, cats |-> {},
       catRules |-> <<>>],
      [explicit |-> {}, rules |-> <<>>, cats |-> {CatTitle(2)},
       catRules |-> <<>>],
      [explicit |-> {}, rules |-> <<>>, cats |-> {},
       catRules |-> << <<"Category:">> >>] }

\* a session that has crawled: startFrom(1) and followDeeper(levels) on a new
\* crawler, all fetches succeeding
Crawled(levels) ==
    FollowDeeperResult(
        StartFromResult(EmptyCrawl, 1, Tail(CatTitle(1)), {}).cs,
        levels, {}).cs

\* the categories that session ran addCategory for
CrawledExpanded(levels) ==
    {1} \cup ExpandedIn(FollowDeeperResult(
                 StartFromResult(EmptyCrawl, 1, Tail(CatTitle(1)), {}).cs,
                 levels, {}).levels)

\* a seed category with a subcategory; one article is on both pages
ArchiveWeb ==
    [cats |-> {1, 2}, arts |-> {-1, -2, -3},
     sub |-> [c \in {1, 2} |-> IF c = 1 THEN <<2>> ELSE <<>>],
     pages |-> [c \in {1, 2} |-> IF c = 1 THEN <<-2, -1>> ELSE <<-3, -2>>]]

InitCollect ==
    /\ web \in {w \in SmallWebs : w.sub[1] = <<2>> /\ w.sub[2] = <<>>}
                 \cup {ArchiveWeb}
    /\ skip_categories = {}
    /\ skip_category_rules = <<>>
    /\ \E p \in ArticlePolicies :
          /\ skip_articles = p.explicit
          /\ skip_article_rules = p.rules
          /\ skip_article_categories = p.cats
          /\ skip_article_category_rules = p.catRules
    /\ \E levels \in 0..MaxLevels :
          /\ category_tree = Crawled(levels).tree
          /\ category_list = Crawled(levels).clist
          /\ article_list = Crawled(levels).alist
          /\ open_categories = Crawled(levels).open
          /\ expanded_cats = CrawledExpanded(levels)
    /\ phase = "other"
    /\ seed = 1
    /\ work = 0
    /\ fd_log = <<>>
    /\ InitState

NextCollect == SetArchivePath \/ CollectBegin \/ CollectStep \/ CollectEnd

SpecCollect == InitCollect /\ [][NextCollect]_vars

\* a seed category with a subcategory and two articles, one of them on
\* both pages
PolicyWeb ==
    [cats |-> {1, 2}, arts |-> {-2, -1},
     sub |-> [c \in {1, 2} |-> IF c = 1 THEN <<2>> ELSE <<>>],
     pages |-> [c \in {1, 2} |-> IF c = 1 THEN <<-2, -1>> ELSE <<-2>>]]

\* the seed category and its subcategory each list an article, under two
\* links that carry the same title
TwinWeb ==
    [cats |-> {1, 2}, arts |-> {-11, -1},
     sub |-> [c \in {1, 2} |-> IF c = 1 THEN <<2>> ELSE <<>>],
     pages |-> [c \in {1, 2} |-> IF c = 1 THEN <<-1>> ELSE <<-11>>]]

InitCollectPolicy ==
    /\ web \in {PolicyWeb, TwinWeb}
    /\ skip_categories = {}
    /\ skip_category_rules = <<>>
    /\ \E p \in ArticlePolicies :
          /\ web = TwinWeb => p.explicit = {} /\ p.rules = <<>>
          /\ web = TwinWeb => p.cats = {} /\ p.catRules = <<>>
          /\ skip_articles = p.explicit
          /\ skip_article_rules = p.rules
          /\ skip_article_categories = p.cats
          /\ skip_article_category_rules = p.catRules
    /\ \E levels \in 0..MaxLevels :
          /\ category_tree = Crawled(levels).tree
          /\ category_list = Crawled(levels).clist
          /\ article_list = Crawled(levels).alist
          /\ open_categories = Crawled(levels).open
          /\ expanded_cats = CrawledExpanded(levels)
    /\ phase = "other"
    /\ seed = 1
    /\ work = 0
    /\ fd_log = <<>>
    /\ InitState

SpecCollectPolicy == InitCollectPolicy /\ [][NextCollect]_vars

----------------------------------------------------------------------------
(* Properties of collectArticles *)

\* the article passes articleIsValid and articleCategoriesAreValid
PassesSkipRules(a) ==
    /\ ArticleIsValid(ArtTitle(a)).raised = "none"
    /\ ArticleCategoriesAreValid(ArtTitle(a), HeadCategories(a)).ret = "True"

\* C5 as claimed: collectArticles(limit = n) with an archive that holds
\* nothing yet, over n pending articles that all fetch and pass the skip
\* rules, ends with n metadata files, n text files and n lines of index.txt.
C5_ArchiveHoldsEveryCollected ==
    LET n == Cardinality(Range(article_list))
    IN (/\ cl_pc = "done"
        /\ archive_path # "None"
        /\ cl_runs = 1
        /\ n >= 1
        /\ cl_limit = n
        /\ cl_flags = [links |-> TRUE, text |-> TRUE, categories |-> TRUE]
        /\ cl_failing = {}
        /\ \A a \in Range(article_list) : PassesSkipRules(a))
       => /\ raised = "none"
          /\ Cardinality(DOMAIN fs_meta) = n
          /\ Cardinality(DOMAIN fs_txt) = n
          /\ Len(fs_index) = n

\* C6 as claimed: once a call of collectArticles with an archive has visited
\* all that was pending, a later call over the same articles visits no
\* article whose text the archive already holds.
C6_ArchivedArticlesNotPending ==
    (cl_complete # 0 /\ cl_runs > cl_complete)
       => \A l \in DOMAIN cl_done : ~cl_done[l].archived

\* C8 as claimed: an article whose fetch fails is put down as a broken link
\* and the call goes on with the articles that remain; no exception leaves
\* collectArticles.
C8_FetchFailureDoesNotAbort ==
    \A l \in DOMAIN cl_done :
        cl_done[l].outcome = "FETCH_FAILED" =>
            /\ cl_done[l].raised = "none"
            /\ raised = "none"

\* the skip policy rejects the name of the article
NameRejected(a) ==
    \/ ArtTitle(a) \in skip_articles
    \/ \E i \in DOMAIN skip_article_rules :
          ReMatch(skip_article_rules[i], ArtTitle(a))

\* the skip policy rejects a head category of the article
HeadRejected(a) ==
    \E i \in DOMAIN HeadCategories(a) :
        \/ HeadCategories(a)[i] \in skip_article_categories
        \/ \E j \in DOMAIN skip_article_category_rules :
              ReMatch(skip_article_category_rules[j], HeadCategories(a)[i])

\* what the archive and the in-memory maps hold of an article
Persisted(a) ==
    \/ Digest(a) \in DOMAIN fs_meta
    \/ Digest(a) \in DOMAIN fs_txt
    \/ \E i \in DOMAIN fs_index : fs_index[i] = IndexLine(a)
    \/ a \in DOMAIN article_texts
    \/ a \in DOMAIN article_links
    \/ a \in DOMAIN article_categories
    \/ a \in DOMAIN article_hieracy_categories

\* C22: throughout a call of collectArticles and at its end, an article the
\* call has visited and whose name or head categories the skip policy
\* rejects has no meta file, no text file, no index entry and no entry in
\* article_texts, article_links, article_categories or
\* article_hieracy_categories.
C22_RejectedNeverPersisted ==
    [][cl_pc = "loop" =>
         \A a \in DOMAIN cl_done' :
             (NameRejected(a) \/ HeadRejected(a)) => ~Persisted(a)']_vars

C22_Witness ==
    /\ cl_pc = "done"
    /\ raised = "none"
    /\ archive_path # "None"
    /\ \E a \in DOMAIN cl_done : HeadRejected(a) /\ ~Persisted(a)
    /\ \E b \in DOMAIN cl_done :
          /\ cl_done[b].outcome = "COLLECTED"
          /\ Digest(b) \in DOMAIN fs_meta

Outcomes4 == {"COLLECTED", "FETCH_FAILED", "NAME_REJECTED", "CATEGORY_REJECTED"}

HierarchyOfLink(a) ==
    RetrieveNames(category_list,
                  RetrieveLoop(category_tree, Range(category_tree[a]), {}))

\* C27 as claimed: the hierarchical categories stored for an article are
\* those collected from the parents of the article's own link, also when a
\* second link of the known-article index carries the same name.
C27_HierarchyOfOwnLink ==
    \A a \in DOMAIN article_hieracy_categories :
        article_hieracy_categories[a] = HierarchyOfLink(a)

\* the links of the lines before the first one that does not unpack
RECURSIVE WellFormedPrefix(_)
WellFormedPrefix(lines) ==
    IF lines = <<>> \/ ~Unpacks(Head(lines)) THEN {}
    ELSE {Head(lines)[2]} \cup WellFormedPrefix(Tail(lines))

\* C12 as claimed: readIndex does not raise on an index whose last line is
\* cut or malformed; it yields the links of the well-formed lines before the
\* first malformed one, so that collectArticles starts its loop with the
\* known articles minus those links pending.
C12_ReadIndexToleratesMalformedLine ==
    (/\ archive_path # "None"
     /\ fs_index_exists
     /\ cl_runs >= 1
     /\ cl_i = 0
     /\ cl_done = <<>>
     /\ \E i \in 1..Len(fs_index) : ~Unpacks(fs_index[i]))
       => /\ raised # "ValueError"
          /\ cl_pc = "loop" =>
                cl_pending = Range(article_list) \ WellFormedPrefix(fs_index)

----------------------------------------------------------------------------
(* save, load and the checkpoints of collectArticles *)

\* save(file_name) that runs to its end: save_path is assigned first, so the
\* snapshot holds it; the file is opened with 'wb' and receives the list of
\* the attribute names and then each attribute
Save ==
    /\ proc = "running"
    /\ cl_pc # "loop"
    /\ rc_pc # "loop"
    /\ save_path' = "checkpoint"
    /\ ckpt_exists' = TRUE
    /\ ckpt_written' = TotalPickles
    /\ ckpt_state' = AttributeValues(skipped_articles, article_texts,
                                     article_links, article_categories,
                                     article_hieracy_categories, "checkpoint")
    /\ raised' = "none"
    /\ UNCHANGED <<collectFrame, skipped_articles, archiveVars, memoryVars,
                   collectVars, proc>>

\* where the writing of the file may stop: after open, after the list of the
\* names, after some attributes, before the last attribute
CrashPoints == {0, 1, TotalPickles \div 2, TotalPickles - 1}

\* save(file_name) in a process that stops while the file is written: open
\* has emptied the file and written of the pickles have reached it (a pickle
\* cut in the middle loads no better than a missing one)
SaveCrash ==
    \E written \in CrashPoints :
        /\ proc = "running"
        /\ cl_pc # "loop"
        /\ rc_pc # "loop"
        /\ save_path' = "checkpoint"
        /\ ckpt_exists' = TRUE
        /\ ckpt_written' = written
        /\ ckpt_state' = AttributeValues(skipped_articles, article_texts,
                                         article_links, article_categories,
                                         article_hieracy_categories,
                                         "checkpoint")
        /\ proc' = "crashed"
        /\ UNCHANGED <<collectFrame, skipped_articles, archiveVars,
                       memoryVars, collectVars, raised>>

\* WikiCrawler.load(file_name) in a new session: dill.load reads the list of
\* names and then one pickle for each name, and raises EOFError when the file
\* ends before that; the attributes are set on a new WikiCrawler
Load ==
    /\ proc \in {"running", "crashed"}
    /\ cl_pc # "loop"
    /\ rc_pc # "loop"
    /\ IF ~ckpt_exists \/ ckpt_written < TotalPickles
         THEN /\ raised' = IF ckpt_exists THEN "EOFError"
                           ELSE "FileNotFoundError"
              /\ proc' = "failed"
              /\ UNCHANGED <<crawlVars, ruleVars, articleRuleVars,
                             skipped_articles, archive_path, memoryVars,
                             save_path, cl_pc>>
         ELSE /\ raised' = "none"
              /\ proc' = "running"
              /\ cl_pc' = "idle"
              /\ archive_path' = ckpt_state.archive_path
              /\ article_categories' = ckpt_state.article_categories
              /\ article_hieracy_categories' =
                    ckpt_state.article_hieracy_categories
              /\ article_links' = ckpt_state.article_links
              /\ article_list' = ckpt_state.article_list
              /\ article_texts' = ckpt_state.article_texts
              /\ category_list' = ckpt_state.category_list
              /\ category_tree' = ckpt_state.category_tree
              /\ open_categories' = ckpt_state.open_categories
              /\ save_path' = ckpt_state.save_path
              /\ skip_article_categories' = ckpt_state.skip_article_categories
              /\ skip_article_category_rules' =
                    ckpt_state.skip_article_category_rules
              /\ skip_article_rules' = ckpt_state.skip_article_rules
              /\ skip_articles' = ckpt_state.skip_articles
              /\ skip_categories' = ckpt_state.skip_categories
              /\ skip_category_rules' = ckpt_state.skip_category_rules
              /\ skipped_articles' = ckpt_state.skipped_articles
    /\ UNCHANGED <<web, checkVars, resolveVars, requestVars, searchVars,
                   phase, seed,
                   work, fd_log, expanded_cats,
                   fs_index_exists, fs_index, fs_meta, fs_txt, dir_fresh,
                   ckpt_exists, ckpt_written, ckpt_state, cl_pending, cl_i,
                   cl_limit, cl_interval, cl_flags, cl_failing, cl_done,
                   cl_runs, cl_complete>>

InitCheckpoint ==
    /\ web = ArchiveWeb
    /\ skip_categories = {}
    /\ skip_category_rules = <<>>
    /\ \E p \in {q \in ArticlePolicies :
                    q.explicit = {} /\ q.rules = <<>> /\ q.catRules = <<>>} :
          /\ skip_articles = p.explicit
          /\ skip_article_rules = p.rules
          /\ skip_article_categories = p.cats
          /\ skip_article_category_rules = p.catRules
    /\ \E levels \in 0..MaxLevels :
          /\ category_tree = Crawled(levels).tree
          /\ category_list = Crawled(levels).clist
          /\ article_list = Crawled(levels).alist
          /\ open_categories = Crawled(levels).open
          /\ expanded_cats = CrawledExpanded(levels)
    /\ phase = "other"
    /\ seed = 1
    /\ work = 0
    /\ fd_log = <<>>
    /\ InitState

NextCheckpoint ==
    Save \/ SaveCrash \/ Load \/ CollectBegin \/ CollectStep \/ CollectEnd

SpecCheckpoint == InitCheckpoint /\ [][NextCheckpoint]_vars

----------------------------------------------------------------------------
(* Properties of the checkpoints *)

\* the articles with bookkeeping in memory, and those of them that the
\* checkpoint file does not hold
Bookkept ==
    DOMAIN article_texts \cup DOMAIN article_links
        \cup DOMAIN article_categories \cup DOMAIN article_hieracy_categories
NotCheckpointed ==
    IF ckpt_exists /\ ckpt_written = TotalPickles
      THEN Bookkept \ (DOMAIN ckpt_state.article_texts
                          \cup DOMAIN ckpt_state.article_links
                          \cup DOMAIN ckpt_state.article_categories
                          \cup DOMAIN ckpt_state.article_hieracy_categories)
      ELSE Bookkept

\* C13 as claimed: while collectArticles runs with save interval k, between
\* two passes of its loop at most k-1 collected articles have bookkeeping
\* that no checkpoint covers.
C13_CheckpointEveryKthCollected ==
    (cl_pc = "loop" /\ proc = "running")
       => Cardinality(NotCheckpointed) <= cl_interval - 1

\* C13: on a crawler that has a save path, collectArticles with save
\* interval k writes a checkpoint at the end of every k-th pass of its loop,
\* counted from the start of the call: between two passes, the articles
\* visited by this call that no checkpoint covers are at most the passes made
\* since the last multiple of k, which is at most k-1.  A crawler without a
\* save path has no checkpoint file.
C13_CheckpointEveryKthPass ==
    /\ (cl_pc = "loop" /\ proc = "running" /\ save_path # "None") =>
          /\ Cardinality(DOMAIN cl_done \cap NotCheckpointed)
                <= cl_i % cl_interval
          /\ cl_i % cl_interval <= cl_interval - 1
    /\ save_path = "None" => ~ckpt_exists

C13_Witness ==
    /\ cl_pc = "loop"
    /\ proc = "running"
    /\ save_path # "None"
    /\ cl_interval = 2
    /\ cl_i = 2
    /\ Cardinality({l \in DOMAIN cl_done :
                       cl_done[l].outcome = "COLLECTED"}) = 2
    /\ DOMAIN cl_done \subseteq DOMAIN ckpt_state.article_texts
    /\ NotCheckpointed = {}

\* C14 as claimed: whenever the process stops during save(file), the file
\* holds a complete snapshot, and load never meets a partly written one.
C14_SnapshotFileAlwaysComplete ==
    /\ ckpt_exists => ckpt_written = TotalPickles
    /\ raised # "EOFError"

\* a step that is a call of save or of load that returns
SaveOrLoadStep == cl_pc # "loop" /\ cl_runs' = cl_runs /\ proc' = "running"

\* the attributes of the crawler are those the checkpoint file holds
SnapshotMatches ==
    /\ ckpt_exists
    /\ ckpt_written = TotalPickles
    /\ ckpt_state.category_tree = category_tree
    /\ ckpt_state.category_list = category_list
    /\ ckpt_state.article_list = article_list
    /\ ckpt_state.open_categories = open_categories
    /\ ckpt_state.skip_categories = skip_categories
    /\ ckpt_state.skip_category_rules = skip_category_rules
    /\ ckpt_state.skip_articles = skip_articles
    /\ ckpt_state.skip_article_rules = skip_article_rules
    /\ ckpt_state.skip_article_categories = skip_article_categories
    /\ ckpt_state.skip_article_category_rules = skip_article_category_rules
    /\ ckpt_state.skipped_articles = skipped_articles
    /\ ckpt_state.article_texts = article_texts
    /\ ckpt_state.article_links = article_links
    /\ ckpt_state.article_categories = article_categories
    /\ ckpt_state.article_hieracy_categories = article_hieracy_categories
    /\ ckpt_state.archive_path = archive_path
    /\ ckpt_state.save_path = save_path

----------------------------------------------------------------------------
(* The requests of WikiCategory and WikiArticle *)

MaxPages == 3

\* WikiCategory.MAX_RETRY
MAX_RETRY == 3

Outcomes == {"ok", "fail"}

\* the log with the outcome added to the attempts of the page in request
Logged(outcome) ==
    [rq_log EXCEPT ![Len(rq_log)] = Append(rq_log[Len(rq_log)], outcome)]

\* the handler that raises at the first failure
NeverRetry(retry) == FALSE

\* if retry < WikiCategory.MAX_RETRY - 1: continue
ShouldRetry(retry) == retry < MAX_RETRY - 1

\* WikiCategory(name, link): _requestCategory calls _make_request for the
\* first page of a listing of rq_pages pages
RequestCategory ==
    \E pages \in 1..MaxPages :
        /\ rq_pc # "request"
        /\ rq_kind' = "category"
        /\ rq_pages' = pages
        /\ rq_retry' = 0
        /\ rq_log' = << <<>> >>
        /\ rq_pc' = "request"
        /\ UNCHANGED requestFrame

\* one pass of the for loop of _make_request: requests.get and
\* raise_for_status succeed and the response is returned (getPages then asks
\* for the next page of the listing, if there is one), or they raise a
\* RequestException
MakeRequestAttempt ==
    \E outcome \in Outcomes :
        /\ rq_pc = "request"
        /\ rq_kind = "category"
        /\ IF outcome = "ok"
             THEN IF Len(rq_log) < rq_pages
                    THEN /\ rq_log' = Append(Logged(outcome), <<>>)
                         /\ rq_retry' = 0
                         /\ rq_pc' = "request"
                    ELSE /\ rq_log' = Logged(outcome)
                         /\ rq_pc' = "done"
                         /\ UNCHANGED rq_retry
           ELSE IF ShouldRetry(rq_retry)
             THEN /\ rq_log' = Logged(outcome)
                  /\ rq_retry' = rq_retry + 1
                  /\ rq_pc' = "request"
             ELSE /\ rq_log' = Logged(outcome)
                  /\ rq_pc' = "raised"
                  /\ UNCHANGED rq_retry
        /\ UNCHANGED <<requestFrame, rq_kind, rq_pages>>

\* WikiArticle(name, link): _load is called
RequestArticle ==
    /\ rq_pc # "request"
    /\ rq_kind' = "article"
    /\ rq_pages' = 1
    /\ rq_retry' = 0
    /\ rq_log' = << <<>> >>
    /\ rq_pc' = "request"
    /\ UNCHANGED requestFrame

\* WikiArticle._load: requests.get and raise_for_status, once
ArticleLoadAttempt ==
    \E outcome \in Outcomes :
        /\ rq_pc = "request"
        /\ rq_kind = "article"
        /\ rq_log' = Logged(outcome)
        /\ rq_pc' = IF outcome = "ok" THEN "done" ELSE "raised"
        /\ UNCHANGED <<requestFrame, rq_kind, rq_pages, rq_retry>>

NextRequest ==
    \/ RequestCategory
    \/ MakeRequestAttempt
    \/ RequestArticle
    \/ ArticleLoadAttempt

SpecRequest == InitRules /\ [][NextRequest]_vars

AllFailed(attempts) ==
    /\ Len(attempts) = MAX_RETRY
    /\ \A i \in DOMAIN attempts : attempts[i] = "fail"

\* C16: a request for a page of a category (the first page and every further
\* page of the listing) makes at most 3 attempts; a successful attempt is
\* the last one for its page; a failure before the third attempt is followed
\* by another attempt; the failure is raised exactly when 3 attempts failed.
C16_CategoryRequestRetries ==
    rq_kind = "category" =>
        /\ \A p \in DOMAIN rq_log :
              /\ Len(rq_log[p]) <= MAX_RETRY
              /\ \A i \in 1..(Len(rq_log[p]) - 1) : rq_log[p][i] = "fail"
              /\ p < Len(rq_log) =>
                    /\ rq_log[p] # <<>>
                    /\ rq_log[p][Len(rq_log[p])] = "ok"
        /\ rq_pc = "raised" <=>
              (rq_log # <<>> /\ AllFailed(rq_log[Len(rq_log)]))
        /\ rq_pc = "done" =>
              /\ Len(rq_log) = rq_pages
              /\ rq_log[rq_pages][Len(rq_log[rq_pages])] = "ok"
        /\ rq_pc = "request" =>
              \A i \in DOMAIN rq_log[Len(rq_log)] :
                  rq_log[Len(rq_log)][i] = "fail"

C16_Witness ==
    /\ rq_kind = "category"
    /\ rq_pc = "raised"
    /\ Len(rq_log) = 2
    /\ rq_log[1] = <<"fail", "fail", "ok">>
    /\ rq_log[2] = <<"fail", "fail", "fail">>

\* C17 as claimed: an article fetch fails only when 3 attempts have failed.
C17_ArticleFetchRetries ==
    (rq_kind = "article" /\ rq_pc = "raised") =>
        AllFailed(rq_log[Len(rq_log)])

----------------------------------------------------------------------------
(* The file of meta information *)

MaxList == 2

\* Strings are sequences of tokens; ", " and ": " are tokens of their own,
\* so that a title such as "B, C" is <<"B", ", ", "C">>.
MetaTitles == {<<"A">>, <<"B", ", ", "C">>}
MetaLinks == {<<"/wiki/", "A">>}
ListsOf(S) == UNION {[1..k -> S] : k \in 0..MaxList}

\* a meta_infos dict as writeMetaInfo receives it from collectArticles: the
\* fields in the order of insertion, each with isinstance(value, list)
MetaField(name, isList, value) ==
    [name |-> name, isList |-> isList, value |-> value]
MetaRecords ==
    { << MetaField("Article", FALSE, t), MetaField("Link", FALSE, l) >>
         \o (IF categories
               THEN << MetaField("Hierachical_categories", TRUE, h),
                       MetaField("Article_categories", TRUE, c) >>
               ELSE <<>>)
         \o (IF links THEN << MetaField("Article_links", TRUE, k) >>
                      ELSE <<>>) :
        t \in MetaTitles, l \in MetaLinks, h \in ListsOf(MetaTitles),
        c \in ListsOf(MetaTitles), k \in ListsOf(MetaLinks),
        categories \in BOOLEAN, links \in BOOLEAN }

\* ", ".join(value)
RECURSIVE Join(_)
Join(list) ==
    IF list = <<>> THEN <<>>
    ELSE IF Len(list) = 1 THEN list[1]
    ELSE list[1] \o <<", ">> \o Join(Tail(list))

\* print(f"{name}: {value}", file=fp) for every item of meta_infos
MetaFile(meta) ==
    [i \in DOMAIN meta |->
        <<meta[i].name, ": ">> \o
            (IF meta[i].isList THEN Join(meta[i].value) ELSE meta[i].value)]

\* the index of the first token sep of text, 0 when there is none
FirstIndex(text, sep) ==
    IF \E i \in DOMAIN text : text[i] = sep
      THEN Min({i \in DOMAIN text : text[i] = sep})
      ELSE 0

\* text.split(sep)
RECURSIVE Split(_, _)
Split(text, sep) ==
    LET i == FirstIndex(text, sep)
    IN IF i = 0 THEN <<text>>
       ELSE <<SubSeq(text, 1, i - 1)>>
                \o Split(SubSeq(text, i + 1, Len(text)), sep)

\* reading a line back: the field name up to the first ": ", the value after
\* it, split on ", " when the field is one of the list-valued fields
ListFields == {"Hierachical_categories", "Article_categories", "Article_links"}
ReadMetaLine(line) ==
    LET i == FirstIndex(line, ": ")
        name == line[1]
        value == SubSeq(line, i + 1, Len(line))
    IN MetaField(name, name \in ListFields,
                 IF name \in ListFields THEN Split(value, ", ") ELSE value)
ReadMetaFile(lines) == [i \in DOMAIN lines |-> ReadMetaLine(lines[i])]

\* writeMetaInfo(article_link, meta_infos) with an archive: the file written
WriteMetaInfo ==
    \E meta \in MetaRecords :
        /\ last' = [op |-> "writeMetaInfo", meta |-> meta,
                    file |-> MetaFile(meta)]
        /\ UNCHANGED <<policyFrame, ruleVars, articleRuleVars,
                       skipped_articles, configured>>

NextMeta == WriteMetaInfo

SpecMeta == InitRules /\ [][NextMeta]_vars

\* C19 as claimed: reading back the file that writeMetaInfo wrote for a meta
\* record yields the field values that were written.
C19_MetaRoundTrip ==
    last.op = "writeMetaInfo" => ReadMetaFile(last.file) = last.meta

----------------------------------------------------------------------------
(* WikiSearch *)

MaxMatches == 4
MaxChunk == 2

\* the search result headings of the page the server answers for an offset
\* and a chunk size, when the search has n matches; match i is the number i
ResultPage(n, off, chunk_size) ==
    [i \in 1..(IF off >= n THEN 0
               ELSE IF off + chunk_size <= n THEN chunk_size
               ELSE n - off) |-> off + i]

\* WikiSearch(search_str): results and offset are reset, the first page is
\* loaded with offset 0 and n_matches is read from it; nothing of the page
\* is put into results
NewSearch ==
    \E n \in 0..MaxMatches :
        /\ sr_pc # "iter"
        /\ sr_pc' = "ready"
        /\ n_matches' = n
        /\ offset' = 0
        /\ results' = <<>>
        /\ raised' = "none"
        /\ UNCHANGED <<searchFrame, sr_at, sr_limit, sr_chunk, sr_yielded>>

\* search_results(limit, chunk_size) is called and its generator started
SearchResults ==
    \E limit \in 0..MaxMatches, chunk_size \in 1..MaxChunk :
        /\ sr_pc = "ready"
        /\ sr_pc' = "iter"
        /\ sr_limit' = limit
        /\ sr_chunk' = chunk_size
        /\ sr_at' = 0
        /\ sr_yielded' = <<>>
        /\ raised' = "none"
        /\ UNCHANGED <<searchFrame, n_matches, offset, results>>

\* one pass of the for loop of search_results: the loop ends when the range
\* is exhausted or at == limit; grepMoreResults adds chunk_size to the
\* offset, loads that page and appends its articles when at == len(results);
\* self.results[at] is yielded, or raises IndexError
SearchNext ==
    LET grep == sr_at = Len(results)
        off == IF grep THEN offset + sr_chunk ELSE offset
        res == IF grep THEN results \o ResultPage(n_matches, off, sr_chunk)
               ELSE results
    IN /\ sr_pc = "iter"
       /\ IF sr_at >= n_matches \/ sr_at = sr_limit
            THEN /\ sr_pc' = "done"
                 /\ raised' = "none"
                 /\ UNCHANGED <<offset, results, sr_at, sr_yielded>>
          ELSE /\ offset' = off
               /\ results' = res
               /\ IF sr_at + 1 > Len(res)
                    THEN /\ sr_pc' = "raised"
                         /\ raised' = "IndexError"
                         /\ UNCHANGED <<sr_at, sr_yielded>>
                    ELSE /\ sr_pc' = "iter"
                         /\ raised' = "none"
                         /\ sr_yielded' = Append(sr_yielded, res[sr_at + 1])
                         /\ sr_at' = sr_at + 1
       /\ UNCHANGED <<searchFrame, n_matches, sr_limit, sr_chunk>>

NextSearch == NewSearch \/ SearchResults \/ SearchNext

SpecSearch == InitRules /\ [][NextSearch]_vars

\* C29 as claimed: search_results yields the matches in order from the
\* first one, without a gap or a repetition, does not fail, and has yielded
\* min(limit, n_matches) articles when it ends.
C29_SearchYieldsFromFirstMatch ==
    /\ sr_pc # "raised"
    /\ sr_yielded = [i \in 1..Len(sr_yielded) |-> i]
    /\ sr_pc = "done" =>
          Len(sr_yielded) = IF sr_limit <= n_matches THEN sr_limit
                            ELSE n_matches

====
